---- MODULE Spec2Model ----
(***************************************************************************)
(* Model of generic_chooser/widgets.py: the AdminChooser and DRFChooser    *)
(* form widgets.  The behavioural unit is the mapping from a form value to *)
(* the display payload {value, title, edit_item_url}, together with the    *)
(* form-data decoding, the template context and the per-instance           *)
(* constructor overrides.                                                  *)
(***************************************************************************)
EXTENDS Integers, Sequences, FiniteSets, TLC

VARIABLES
    cfg,      \* the widget class under study: its class attributes and environment constants
    store,    \* the backing store: ORM table rows (AdminChooser) or remote resources (DRFChooser)
    fault,    \* the failure the backing store currently answers with ("none": it answers)
    call,     \* the last widget operation: its arguments, its outcome and what it invoked
    classAttrs, \* AdminChooser's class-level display attributes
    widgets,    \* instance __dict__ of each constructed widget (NotBuilt before construction)
    forwarded   \* the kwargs each constructor call passed on to super().__init__

vars == <<cfg, store, fault, call, classAttrs, widgets, forwarded>>

----------------------------------------------------------------------------
(* Bounds *)

MaxPk == 2        \* integer primary keys / remote ids are 1..MaxPk
MaxStrLen == 1    \* submitted strings have at most this many characters
MaxRows == 2      \* rows held by the backing store at once
MaxWidgets == 2   \* widget instances constructed
MaxKwargs == 2    \* keyword arguments passed to one constructor call

----------------------------------------------------------------------------
(* Python values.  Each kind of value is a record with its own field names *)

PyNone == [t |-> "None"]
PyInt(n) == [t |-> "int", n |-> n]
PyStr(s) == [t |-> "str", s |-> s]
Inst(c, k, l) == [t |-> "inst", cls |-> c, pk |-> k, label |-> l]

IsStr(v) == v.t = "str"
IsInt(v) == v.t = "int"
IsInst(v) == v.t = "inst"

Chars == {"1", "/"}
RECURSIVE StringsOfLen(_)
StringsOfLen(n) ==
    IF n = 0 THEN {<<>>}
    ELSE {Append(s, c) : s \in StringsOfLen(n - 1), c \in Chars}
Strings == UNION {StringsOfLen(n) : n \in 0..MaxStrLen}

Labels == {<<"A">>, <<"B">>}

Digits == <<"0", "1", "2", "3", "4", "5", "6", "7", "8", "9">>
IsDigit(c) == \E d \in 1..10 : Digits[d] = c
DigitValue(c) == (CHOOSE d \in 1..10 : Digits[d] = c) - 1
\* str(n) for a non-negative integer
RECURSIVE Decimal(_)
Decimal(n) == IF n < 10 THEN <<Digits[n + 1]>> ELSE Append(Decimal(n \div 10), Digits[(n % 10) + 1])
\* the strings int() accepts, and what it makes of them
IsNumeral(s) == Len(s) > 0 /\ \A i \in 1..Len(s) : IsDigit(s[i])
RECURSIVE NumeralValue(_)
NumeralValue(s) ==
    IF Len(s) = 0 THEN 0
    ELSE 10 * NumeralValue(SubSeq(s, 1, Len(s) - 1)) + DigitValue(s[Len(s)])

\* str(x): the text Python's str() gives for a value
StrOf(v) ==
    IF IsStr(v) THEN v.s
    ELSE IF IsInt(v) THEN Decimal(v.n)
    ELSE IF IsInst(v) THEN v.label
    ELSE <<"N", "o", "n", "e">>

----------------------------------------------------------------------------
(* Outcomes of a call *)

Return(v) == [t |-> "return", val |-> v]
Raise(e) == [t |-> "raise", exc |-> e]
Returned(o) == o.t = "return"
Raised(o) == o.t = "raise"

\* Exception classes; a model's DoesNotExist derives from ObjectDoesNotExist
DoesNotExistOf(m) == <<m, "DoesNotExist">>
ObjectDoesNotExist == <<"django.core.exceptions", "ObjectDoesNotExist">>
ExcNamed(n) == <<"builtins", n>>
IsSubclass(e, c) ==
    \/ e = c
    \/ c = ObjectDoesNotExist /\ e[2] = "DoesNotExist"
    \/ c = ExcNamed("Exception")

----------------------------------------------------------------------------
(* The widget class: its class attributes (lines 28-55, 177) *)

ModelClass(n) == [t |-> "class", name |-> n]
RouteName(n) == [t |-> "route", name |-> n]
Item == ModelClass("Item")

Kinds == {"AdminChooser", "DRFChooser"}
PkFields == {"AutoField", "CharField"}

\* Primary keys a saved row of the store can have
StoreKeys(w) ==
    IF w.pkField = "AutoField" THEN {PyInt(n) : n \in 1..MaxPk}
    ELSE {PyStr(s) : s \in Strings \ {<<>>}}
\* Primary key of an instance that was never saved: the field's default
UnsavedPk(w) == IF w.pkField = "AutoField" THEN PyNone ELSE PyStr(<<>>)

Rows(w) == [pk : StoreKeys(w), label : Labels]

----------------------------------------------------------------------------
(* Framework functions the widget calls *)

\* django.contrib.admin.utils.quote: escape the characters of QUOTE_MAP in a
\* string as _XX (hex code); a non-string is returned as it is
QuoteChar(c) ==
    IF c = "/" THEN <<"_", "2", "F">>
    ELSE IF c = "_" THEN <<"_", "5", "F">>
    ELSE IF c = ":" THEN <<"_", "3", "A">>
    ELSE <<c>>
RECURSIVE QuoteSeq(_)
QuoteSeq(s) == IF s = <<>> THEN <<>> ELSE QuoteChar(Head(s)) \o QuoteSeq(Tail(s))
quote(v) == IF IsStr(v) THEN PyStr(QuoteSeq(v.s)) ELSE v

\* django.urls.reverse with one positional argument: the URL of the route
reverse(name, arg) == [t |-> "url", route |-> name.name, arg |-> arg]

\* The pk field's coercion of a lookup value (Field.get_prep_value)
ToPython(w, value) ==
    IF w.pkField = "AutoField" THEN
        IF IsInt(value) THEN Return(value)
        ELSE IF IsStr(value) THEN
            IF IsNumeral(value.s) THEN Return(PyInt(NumeralValue(value.s)))
            ELSE Raise(ExcNamed("ValueError"))
        ELSE Raise(ExcNamed("TypeError"))
    ELSE
        IF IsStr(value) THEN Return(value) ELSE Return(PyStr(StrOf(value)))

\* QuerySet.get: the one row matching, as an instance of the model
RowInstance(w, found) ==
    IF found = {} THEN Raise(DoesNotExistOf(w.model.name))
    ELSE Return(Inst(w.model.name, (CHOOSE r \in found : TRUE).pk,
                     (CHOOSE r \in found : TRUE).label))
ObjectsGetKey(w, st, f, key) ==
    IF Raised(key) THEN key
    ELSE IF f # "none" THEN Raise(ExcNamed(f))
    ELSE RowInstance(w, {r \in st : r.pk = key.val})
\* self.model.objects.get(pk=value)
ObjectsGet(w, st, f, value) == ObjectsGetKey(w, st, f, ToPython(w, value))

\* requests.get(url).json(): the remote API answers with the resource whose
\* id is the URL's last segment, or with its not-found body
ApiUrl(seg) == [base |-> "api_base_url", seg |-> seg, query |-> "format=json"]
NotFoundBody(w) ==
    IF w.notFoundKey = "message" THEN [message |-> "Not found"]
    ELSE [detail |-> "Not found."]
RequestsGetJson(w, st, f, url) ==
    IF f # "none" THEN Raise(ExcNamed(f))
    ELSE IF \A r \in st : Decimal(r.pk.n) # url.seg THEN Return(NotFoundBody(w))
    ELSE Return([id |-> (CHOOSE r \in st : Decimal(r.pk.n) = url.seg).pk,
                 name |-> (CHOOSE r \in st : Decimal(r.pk.n) = url.seg).label])

IsDict(v) == "t" \notin DOMAIN v
\* str() of an instance: a model's __str__, or a dict's repr
ReprOf(d) == [t |-> "repr", of |-> d]

----------------------------------------------------------------------------
(* The widget's methods *)

\* AdminChooser.get_instance
AdminGetInstance(w, st, f, value) ==
    IF w.model = PyNone THEN Raise(ExcNamed("AttributeError"))
    ELSE ObjectsGet(w, st, f, value)

\* DRFChooser.get_instance
DRFCheckResult(result) ==
    IF Raised(result) THEN result
    ELSE IF "id" \notin DOMAIN result.val THEN
        \* raise ObjectDoesNotExist(result['message'])
        IF "message" \notin DOMAIN result.val THEN Raise(ExcNamed("KeyError"))
        ELSE Raise(ObjectDoesNotExist)
    ELSE result
DRFGetInstance(w, st, f, id) ==
    DRFCheckResult(RequestsGetJson(w, st, f, ApiUrl(StrOf(quote(id)))))

get_instance(w, st, f, value) ==
    IF w.kind = "DRFChooser" THEN DRFGetInstance(w, st, f, value)
    ELSE AdminGetInstance(w, st, f, value)

\* AdminChooser.get_edit_item_url
AdminGetEditItemUrl(w, instance) ==
    IF w.edit_item_url_name = PyNone THEN Return(PyNone)
    ELSE Return(reverse(w.edit_item_url_name, quote(instance.pk)))

\* DRFChooser.get_edit_item_url; instance['id'] of a model instance is a TypeError
DRFGetEditItemUrl(w, instance) ==
    IF w.edit_item_url_name = PyNone THEN Return(PyNone)
    ELSE IF IsDict(instance) THEN Return(reverse(w.edit_item_url_name, instance.id))
    ELSE Raise(ExcNamed("TypeError"))

get_edit_item_url(w, instance) ==
    IF w.kind = "DRFChooser" THEN DRFGetEditItemUrl(w, instance)
    ELSE AdminGetEditItemUrl(w, instance)

\* AdminChooser.get_title: str(instance)
get_title(instance) ==
    IF IsDict(instance) THEN ReprOf(instance) ELSE PyStr(instance.label)

\* isinstance(value, self.model), guarded by the truth of self.model
IsModelInstance(w, value) ==
    w.model # PyNone /\ IsInst(value) /\ value.cls = w.model.name

\* Variant: a bare `except Exception:`
CaughtClassBroad(w) == ExcNamed("Exception")

\* The exception class the except clause of get_value_data names
CaughtClass(w) ==
    IF w.model = PyNone THEN ObjectDoesNotExist ELSE DoesNotExistOf(w.model.name)

\* get_value_data, lines 90-99: the instance and the value to report, and
\* the number of get_instance calls made on the way
Resolved(v, i, n) == [t |-> "return", value |-> v, instance |-> i, lookups |-> n]

\* Variant: the value reported is the key of the instance found, not the input
TryGetInstanceKey(w, value, r) ==
    IF Returned(r)
    THEN Resolved(IF IsDict(r.val) THEN r.val.id ELSE r.val.pk, r.val, 1)
    ELSE IF IsSubclass(r.exc, CaughtClass(w)) THEN Resolved(value, PyNone, 1)
    ELSE [t |-> "raise", exc |-> r.exc, lookups |-> 1]

\* lines 96-99: the try block around get_instance, r being what the call gave
TryGetInstance(w, value, r) ==
    IF Returned(r) THEN Resolved(value, r.val, 1)
    ELSE IF IsSubclass(r.exc, CaughtClass(w)) THEN Resolved(value, PyNone, 1)
    ELSE [t |-> "raise", exc |-> r.exc, lookups |-> 1]

\* Variant: a model instance passed as the value is fetched again
ResolveInstanceRefetch(w, st, f, value) ==
    IF value = PyNone THEN Resolved(value, PyNone, 0)
    ELSE IF IsModelInstance(w, value)
    THEN TryGetInstance(w, value.pk, get_instance(w, st, f, value.pk))
    ELSE TryGetInstance(w, value, get_instance(w, st, f, value))

\* lines 90-99: None, a model instance, or a key to look up
ResolveInstance(w, st, f, value) ==
    IF value = PyNone THEN Resolved(value, PyNone, 0)
    ELSE IF IsModelInstance(w, value) THEN Resolved(value.pk, value, 0)
    ELSE TryGetInstance(w, value, get_instance(w, st, f, value))

Payload(v, ttl, url) == [value |-> v, title |-> ttl, edit_item_url |-> url]
EmptyPayload == Payload(PyNone, PyStr(<<>>), PyNone)

\* Variant: the payload carries the quoted value
PopulatedPayloadQuoted(value, instance, url) ==
    IF Raised(url) THEN url
    ELSE Return(Payload(quote(value), get_title(instance), url.val))

\* lines 108-112: the payload of a resolved instance
PopulatedPayload(value, instance, url) ==
    IF Raised(url) THEN url
    ELSE Return(Payload(value, get_title(instance), url.val))

\* Variant: the empty payload echoes the value that was looked up
BuildPayloadEcho(w, value, instance) ==
    IF instance = PyNone THEN Return(Payload(value, PyStr(<<>>), PyNone))
    ELSE PopulatedPayload(value, instance, get_edit_item_url(w, instance))

\* get_value_data, lines 101-112
BuildPayload(w, value, instance) ==
    IF instance = PyNone THEN Return(EmptyPayload)
    ELSE PopulatedPayload(value, instance, get_edit_item_url(w, instance))

\* AdminChooser.get_value_data: its outcome and the lookups it made
DescribeResolved(w, r) ==
    IF Raised(r) THEN [out |-> Raise(r.exc), lookups |-> r.lookups]
    ELSE [out |-> BuildPayload(w, r.value, r.instance), lookups |-> r.lookups]
get_value_data(w, st, f, value) == DescribeResolved(w, ResolveInstance(w, st, f, value))

\* AdminChooser.value_from_datadict over Widget.value_from_datadict (data.get(name))
DataGet(data, name) == IF name \in DOMAIN data THEN data[name] ELSE PyNone

\* Variant: the empty string is passed on
EmptyAsNoneKept(result) == result

\* lines 75-78: treat the empty string as None
EmptyAsNone(result) == IF result = PyStr(<<>>) THEN PyNone ELSE result
value_from_datadict(data, name) == EmptyAsNone(DataGet(data, name))

\* AdminChooser.get_choose_modal_url
get_choose_modal_url(w) ==
    IF w.choose_modal_url_name = PyNone THEN PyNone
    ELSE [t |-> "url", route |-> w.choose_modal_url_name.name]

\* AdminChooser.render_html: the template context, and the get_value_data
\* calls and lookups made to build it.  From Wagtail 2.12 on the value handed
\* in is the payload already
\* Variant: is_empty taken from the title
TemplateContextByTitle(w, name, value_data) ==
    [original_field_html |-> [name |-> name, value |-> value_data.value],
     is_empty |-> value_data.title = PyStr(<<>>),
     title |-> value_data.title,
     edit_item_url |-> value_data.edit_item_url,
     choose_modal_url |-> get_choose_modal_url(w)]

TemplateContext(w, name, value_data) ==
    [original_field_html |-> [name |-> name, value |-> value_data.value],
     is_empty |-> value_data.value = PyNone,
     title |-> value_data.title,
     edit_item_url |-> value_data.edit_item_url,
     choose_modal_url |-> get_choose_modal_url(w)]
RenderValueData(w, name, vd, calls) ==
    IF Raised(vd.out) THEN [out |-> vd.out, lookups |-> vd.lookups, gvdCalls |-> calls]
    ELSE [out |-> Return(TemplateContext(w, name, vd.out.val)),
          lookups |-> vd.lookups, gvdCalls |-> calls]
render_html(w, st, f, name, value) ==
    IF w.newWagtail THEN RenderValueData(w, name, [out |-> Return(value), lookups |-> 0], 0)
    ELSE RenderValueData(w, name, get_value_data(w, st, f, value), 1)

----------------------------------------------------------------------------
(* Inputs *)

Classes == {"Item", "Other"}
Instances(w) ==
    {Inst(c, k, l) : c \in Classes, k \in StoreKeys(w) \cup {UnsavedPk(w)}, l \in Labels}
Keys == {PyInt(n) : n \in 1..MaxPk} \cup {PyStr(s) : s \in Strings}
Values(w) == {PyNone} \cup Keys \cup Instances(w)

FieldNames == {"item", "other"}
Submitted == {PyStr(<<>>), PyStr(<<"1">>), PyInt(1)}
FormData == UNION {[d -> Submitted] : d \in SUBSET FieldNames}

Faults(w) ==
    IF w.kind = "DRFChooser" THEN {"ConnectionError", "JSONDecodeError"}
    ELSE {"OperationalError"}

\* The widget classes studied: AdminChooser over a model with an integer or a
\* character primary key (or with no model), DRFChooser over an API with
\* integer ids, with or without a model attribute
Configs ==
    {w \in [kind : Kinds, model : {PyNone, Item},
            edit_item_url_name : {PyNone, RouteName("item_edit")},
            choose_modal_url_name : {PyNone, RouteName("item_chooser")},
            pkField : PkFields, notFoundKey : {"message", "detail"},
            newWagtail : BOOLEAN] :
        /\ w.pkField = "CharField" => (w.kind = "AdminChooser" /\ w.model # PyNone)
        /\ w.notFoundKey = "detail" => w.kind = "DRFChooser"
        /\ (w.choose_modal_url_name = PyNone) = (w.edit_item_url_name = PyNone)}

NoCall == [op |-> "none"]
\* No request is being served
Idle == call = NoCall
\* The record of a call: the operation, its arguments, and what it gave
Called(op, args, r) == [op |-> op] @@ args @@ r

\* AdminChooserAdapter.js_args: render_html of get_value_data(None)
AddCall(vd, r) ==
    [out |-> r.out, lookups |-> vd.lookups + r.lookups, gvdCalls |-> 1 + r.gvdCalls]
JsArgsRender(w, st, f, vd) == AddCall(vd, render_html(w, st, f, "__NAME__", vd.out.val))

----------------------------------------------------------------------------
(* The state machine *)

\* The keywords __init__ takes for itself, in the order it looks for them
OverrideNames == <<"choose_one_text", "choose_another_text", "clear_choice_text",
                   "link_to_chosen_text", "show_edit_link">>
\* The class attributes of lines 30-34
ClassDefaults ==
    [choose_one_text |-> "Choose an item",
     choose_another_text |-> "Choose another item",
     clear_choice_text |-> "Clear choice",
     link_to_chosen_text |-> "Edit this item",
     show_edit_link |-> "True"]

Range(q) == {q[i] : i \in 1..Len(q)}
KwargNames == Range(OverrideNames) \cup {"attrs"}
KwargValue(name) ==
    IF name = "show_edit_link" THEN "False"
    ELSE IF name = "attrs" THEN "{'class': 'wide'}"
    ELSE "Custom text"
Kwargs ==
    {[n \in d |-> KwargValue(n)] : d \in {x \in SUBSET KwargNames : Cardinality(x) <= MaxKwargs}}

\* dict operations
SetItem(d, name, v) == [n \in DOMAIN d \cup {name} |-> IF n = name THEN v ELSE d[n]]
Pop(d, name) == [n \in DOMAIN d \ {name} |-> d[n]]
EmptyDict == [n \in {} |-> ""]

\* Variant: the override is written to the class
PopOverrideOnClass(o, name) ==
    IF name \in DOMAIN o.kwargs
    THEN [self |-> o.self, cls |-> SetItem(o.cls, name, o.kwargs[name]),
          kwargs |-> Pop(o.kwargs, name)]
    ELSE o

\* Lines 139-148, one of the five steps:
\*   if name in kwargs: self.<name> = kwargs.pop(name)
\* o holds the instance __dict__, the class attributes and the kwargs
PopOverride(o, name) ==
    IF name \in DOMAIN o.kwargs
    THEN [self |-> SetItem(o.self, name, o.kwargs[name]), cls |-> o.cls,
          kwargs |-> Pop(o.kwargs, name)]
    ELSE o
RECURSIVE PopOverrides(_, _)
PopOverrides(o, names) ==
    IF names = <<>> THEN o ELSE PopOverrides(PopOverride(o, Head(names)), Tail(names))
\* AdminChooser.__init__: what is left in kwargs goes to super().__init__
AdminChooserInit(cls, kwargs) ==
    PopOverrides([self |-> EmptyDict, cls |-> cls, kwargs |-> kwargs], OverrideNames)

\* Attribute lookup on a widget: the instance __dict__ first, then the class
GetAttr(wd, cls, name) == IF name \in DOMAIN wd.dict THEN wd.dict[name] ELSE cls[name]

NotBuilt == [built |-> FALSE]

Init ==
    /\ cfg \in Configs
    /\ store = {}
    /\ fault = "none"
    /\ call = NoCall
    /\ classAttrs = ClassDefaults
    /\ widgets = [i \in 1..MaxWidgets |-> NotBuilt]
    /\ forwarded = [i \in 1..MaxWidgets |-> NotBuilt]

Frame == UNCHANGED <<cfg, classAttrs, widgets, forwarded>>

\* The store gains or replaces a row, loses a row, or changes how it answers;
\* this happens between requests

SaveRow(r) ==
    /\ Idle
    /\ LET kept == {x \in store : x.pk # r.pk} IN
       /\ Cardinality(kept) < MaxRows
       /\ store' = kept \cup {r}
    /\ r \notin store
    /\ UNCHANGED call
    /\ UNCHANGED fault /\ Frame

DeleteRow(r) ==
    /\ Idle
    /\ r \in store
    /\ store' = store \ {r}
    /\ UNCHANGED call
    /\ UNCHANGED fault /\ Frame

SetFault(f) ==
    /\ Idle
    /\ f # fault
    /\ fault' = f
    /\ UNCHANGED call
    /\ UNCHANGED store /\ Frame

\* widget.get_value_data(value)
GetValueData(value) ==
    /\ Idle
    /\ call' = Called("get_value_data", [arg |-> value],
                      get_value_data(cfg, store, fault, value))
    /\ UNCHANGED <<store, fault>> /\ Frame

\* The payload's value comes back through the form and is described again
Resubmit ==
    /\ call.op = "get_value_data" /\ Returned(call.out)
    /\ call' = Called("resubmit", [first |-> call, arg |-> call.out.val.value],
                      get_value_data(cfg, store, fault, call.out.val.value))
    /\ UNCHANGED <<store, fault>> /\ Frame

\* widget.value_from_datadict(data, files, name)
ValueFromDatadict(data, name) ==
    /\ Idle
    /\ call' = Called("value_from_datadict", [data |-> data, name |-> name],
                      [out |-> Return(value_from_datadict(data, name))])
    /\ UNCHANGED <<store, fault>> /\ Frame

\* The decoded form value is described for re-display
DescribeSubmitted ==
    /\ call.op = "value_from_datadict"
    /\ call' = Called("describe_submitted",
                      [data |-> call.data, name |-> call.name, arg |-> call.out.val],
                      get_value_data(cfg, store, fault, call.out.val))
    /\ UNCHANGED <<store, fault>> /\ Frame

\* widget.render_html(name, value, attrs): from Wagtail 2.12 on the framework
\* hands in the payload get_value_data returned, before that the raw value
RenderHtml(name) ==
    /\ \E value \in (IF cfg.newWagtail
                     THEN (IF call.op = "get_value_data" /\ Returned(call.out)
                           THEN {call.out.val} ELSE {})
                     ELSE (IF Idle THEN Values(cfg) ELSE {})) :
         call' = Called("render_html",
                        [arg |-> value, name |-> name,
                         given |-> (IF cfg.newWagtail THEN call ELSE NoCall)],
                        render_html(cfg, store, fault, name, value))
    /\ UNCHANGED <<store, fault>> /\ Frame

\* AdminChooserAdapter.js_args: registered where telepath exists
JsArgs ==
    /\ Idle
    /\ cfg.newWagtail
    /\ call' = Called("js_args", [name |-> "__NAME__"],
                      JsArgsRender(cfg, store, fault, get_value_data(cfg, store, fault, PyNone)))
    /\ UNCHANGED <<store, fault>> /\ Frame

\* The request is over
EndRequest ==
    /\ ~Idle
    /\ call' = NoCall
    /\ UNCHANGED <<store, fault>> /\ Frame

\* AdminChooser(**kwargs), making widget i
Construct(i, kwargs) ==
    /\ ~widgets[i].built
    /\ widgets' = [widgets EXCEPT ![i] =
                     [built |-> TRUE, dict |-> AdminChooserInit(classAttrs, kwargs).self]]
    /\ classAttrs' = AdminChooserInit(classAttrs, kwargs).cls
    /\ forwarded' = [forwarded EXCEPT ![i] =
                       [built |-> TRUE, given |-> kwargs,
                        passed |-> AdminChooserInit(classAttrs, kwargs).kwargs]]
    /\ UNCHANGED <<cfg, store, fault, call>>

\* Widget i is dropped
Discard(i) ==
    /\ widgets[i].built
    /\ widgets' = [widgets EXCEPT ![i] = NotBuilt]
    /\ forwarded' = [forwarded EXCEPT ![i] = NotBuilt]
    /\ UNCHANGED <<cfg, store, fault, call, classAttrs>>

Next ==
    \/ \E r \in Rows(cfg) : SaveRow(r)
    \/ \E r \in Rows(cfg) : DeleteRow(r)
    \/ \E f \in Faults(cfg) \cup {"none"} : SetFault(f)
    \/ \E v \in Values(cfg) : GetValueData(v)
    \/ Resubmit
    \/ \E d \in FormData, n \in FieldNames : ValueFromDatadict(d, n)
    \/ DescribeSubmitted
    \/ \E n \in FieldNames : RenderHtml(n)
    \/ JsArgs
    \/ EndRequest

Spec == Init /\ [][Next]_vars

\* Widget construction, for AdminChooser as the module defines it
InitConstruction ==
    /\ Init
    /\ cfg.kind = "AdminChooser" /\ cfg.model = PyNone /\ cfg.edit_item_url_name = PyNone
    /\ cfg.newWagtail
NextConstruction ==
    \/ \E i \in 1..MaxWidgets, k \in Kwargs : Construct(i, k)
    \/ \E i \in 1..MaxWidgets : Discard(i)
SpecConstruction == InitConstruction /\ [][NextConstruction]_vars

----------------------------------------------------------------------------
(* Properties *)

\* The operations that are one get_value_data call
GvdOps == {"get_value_data", "resubmit", "describe_submitted"}
\* The call looked its argument up: it was neither None nor a model instance
LookedUp == call.op \in GvdOps /\ call.arg # PyNone /\ ~IsModelInstance(cfg, call.arg)
\* What the lookup of the call's argument gives in the present store
LookupNow == get_instance(cfg, store, fault, call.arg)
\* The not-found exception the widget's except clause selects
SelectedNotFound ==
    IF cfg.model = PyNone THEN ObjectDoesNotExist ELSE <<cfg.model.name, "DoesNotExist">>

\* C1: an AdminChooser with a model, asked about a value that is neither None
\* nor a model instance and whose ORM lookup raises the model's DoesNotExist,
\* raises nothing and returns exactly the empty-selection payload.
C1_NotFoundIsEmpty ==
    (/\ LookedUp
     /\ cfg.kind = "AdminChooser" /\ cfg.model # PyNone
     /\ LookupNow = Raise(<<cfg.model.name, "DoesNotExist">>))
    => call.out = Return([value |-> PyNone, title |-> PyStr(<<>>), edit_item_url |-> PyNone])

C1_Witness ==
    /\ LookedUp /\ call.op = "get_value_data"
    /\ cfg.kind = "AdminChooser" /\ cfg.model # PyNone
    /\ call.arg = PyInt(2) /\ store # {}
    /\ LookupNow = Raise(<<cfg.model.name, "DoesNotExist">>)
    /\ Returned(call.out) /\ call.out.val.value = PyNone

\* C2: a DRFChooser asked about a non-None value for which the remote GET
\* returns a JSON object without an `id` field raises nothing and returns the
\* empty-selection payload, whatever the response's other fields and whatever
\* the widget's model attribute.
ResponseNow == RequestsGetJson(cfg, store, fault, ApiUrl(StrOf(quote(call.arg))))
C2_NoIdIsEmpty ==
    (/\ LookedUp
     /\ cfg.kind = "DRFChooser"
     /\ Returned(ResponseNow) /\ "id" \notin DOMAIN ResponseNow.val)
    => call.out = Return([value |-> PyNone, title |-> PyStr(<<>>), edit_item_url |-> PyNone])

\* C3: when the lookup of a non-None value returns an instance, the payload's
\* value is the input value unchanged, its title is str(instance), and its
\* edit_item_url is None without edit_item_url_name and otherwise the route
\* reversed with the instance's key (quoted pk, or the response's id).
InstanceKey(instance) ==
    IF cfg.kind = "DRFChooser" THEN instance.id ELSE quote(instance.pk)
ExpectedUrl(instance) ==
    IF cfg.edit_item_url_name = PyNone THEN PyNone
    ELSE [t |-> "url", route |-> cfg.edit_item_url_name.name, arg |-> InstanceKey(instance)]
ExpectedTitle(instance) ==
    IF cfg.kind = "DRFChooser" THEN ReprOf(instance) ELSE PyStr(instance.label)
C3_FoundIsPopulated ==
    (LookedUp /\ Returned(LookupNow))
    => call.out = Return([value |-> call.arg,
                          title |-> ExpectedTitle(LookupNow.val),
                          edit_item_url |-> ExpectedUrl(LookupNow.val)])

C3_Witness ==
    /\ LookedUp /\ call.op = "get_value_data" /\ Returned(LookupNow)
    /\ cfg.edit_item_url_name # PyNone
    /\ call.arg = PyStr(<<"1">>)
    /\ Returned(call.out) /\ call.out.val.value = PyStr(<<"1">>)
    /\ call.out.val.edit_item_url.arg = PyInt(1)

C3_WitnessQuoted ==
    /\ LookedUp /\ Returned(LookupNow)
    /\ cfg.kind = "AdminChooser" /\ call.arg = PyStr(<<"/">>)
    /\ Returned(call.out) /\ call.out.val.edit_item_url # PyNone
    /\ call.out.val.edit_item_url.arg = PyStr(<<"_", "2", "F">>)

\* C4: one get_value_data call invokes get_instance at most once: not at all
\* for None or for an instance of the widget's model, exactly once otherwise.
\* render_html handed a payload (Wagtail >= 2.12) makes no get_value_data call
\* and no lookup, and otherwise makes exactly one get_value_data call.
LookupsFor(v) == IF v = PyNone \/ IsModelInstance(cfg, v) THEN 0 ELSE 1
C4_AtMostOneLookup ==
    /\ call.op \in GvdOps => (call.lookups <= 1 /\ call.lookups = LookupsFor(call.arg))
    /\ (call.op = "render_html" /\ cfg.newWagtail)
         => (call.gvdCalls = 0 /\ call.lookups = 0)
    /\ (call.op = "render_html" /\ ~cfg.newWagtail)
         => (call.gvdCalls = 1 /\ call.lookups = LookupsFor(call.arg))

C4_Witness ==
    /\ call.op = "render_html" /\ cfg.newWagtail /\ cfg.kind = "DRFChooser"
    /\ call.given.lookups = 1 /\ call.lookups = 0
    /\ Returned(call.out) /\ ~call.out.val.is_empty

C4_WitnessOld ==
    /\ call.op = "render_html" /\ ~cfg.newWagtail
    /\ call.gvdCalls = 1 /\ call.lookups = 1 /\ Returned(call.out)

\* C5: when get_instance fails with an error other than the not-found
\* exception the widget selects, get_value_data returns no payload and raises
\* that same error.
C5_OtherErrorsPropagate ==
    (LookedUp /\ Raised(LookupNow) /\ LookupNow.exc # SelectedNotFound)
    => call.out = LookupNow

C5_Witness ==
    /\ LookedUp /\ call.op = "get_value_data"
    /\ fault = "ConnectionError"
    /\ call.out = Raise(<<"builtins", "ConnectionError">>)

C5_WitnessOrm ==
    /\ LookedUp /\ cfg.kind = "AdminChooser" /\ cfg.model # PyNone
    /\ fault = "OperationalError"
    /\ call.out = Raise(<<"builtins", "OperationalError">>)

\* C7: when the value is an instance of the widget's model, a payload is
\* returned whose value is the instance's primary key and whose title and
\* edit_item_url come from that instance, with no lookup.
C7_InstancePassedThrough ==
    (call.op \in GvdOps /\ IsModelInstance(cfg, call.arg))
    => /\ call.lookups = 0
       /\ Returned(call.out)
       /\ call.out.val.value = call.arg.pk
       /\ call.out.val.title = PyStr(call.arg.label)
       /\ (cfg.edit_item_url_name = PyNone) = (call.out.val.edit_item_url = PyNone)

\* C8: value_from_datadict returns None when the underlying input's value is
\* the empty string and the underlying value otherwise; a submitted empty
\* string described by get_value_data gives the empty payload with no lookup.
Underlying == IF call.name \in DOMAIN call.data THEN call.data[call.name] ELSE PyNone
C8_EmptyStringIsNone ==
    /\ call.op = "value_from_datadict"
         => call.out = Return(IF Underlying = PyStr(<<>>) THEN PyNone ELSE Underlying)
    /\ (call.op = "describe_submitted" /\ Underlying = PyStr(<<>>))
         => (/\ call.out = Return([value |-> PyNone, title |-> PyStr(<<>>),
                                   edit_item_url |-> PyNone])
             /\ call.lookups = 0)

C8_Witness ==
    /\ call.op = "describe_submitted" /\ Underlying = PyStr(<<>>)
    /\ call.arg = PyNone /\ call.lookups = 0 /\ store # {}

C8_WitnessUnchanged ==
    /\ call.op = "value_from_datadict" /\ Underlying = PyStr(<<"1">>)
    /\ call.out = Return(PyStr(<<"1">>))

\* The value a call describes: for render_html from Wagtail 2.12 on, the value
\* of the get_value_data call whose payload it was handed
DescribedValue ==
    IF call.op = "render_html" /\ cfg.newWagtail THEN call.given.arg ELSE call.arg
\* No instance is resolved for v: it is None, or its lookup does not return
NoInstanceFor(v) ==
    \/ v = PyNone
    \/ ~IsModelInstance(cfg, v) /\ ~Returned(get_instance(cfg, store, fault, v))

\* C9 (as claimed): a returned payload's value is None iff no instance was
\* resolved, and then title is '' and edit_item_url is None; render_html's
\* is_empty is true exactly when there is no selected instance.  For every
\* input, model instances included.
C9_EmptyOrPopulated ==
    /\ (call.op \in GvdOps /\ Returned(call.out))
         => /\ (call.out.val.value = PyNone) = NoInstanceFor(call.arg)
            /\ call.out.val.value = PyNone
                 => (call.out.val.title = PyStr(<<>>) /\ call.out.val.edit_item_url = PyNone)
    /\ (call.op = "render_html" /\ Returned(call.out))
         => call.out.val.is_empty = NoInstanceFor(DescribedValue)

\* C9 (amended): the same, except for a model instance whose primary key is
\* None: its payload has value None with the instance's title and edit link,
\* and is_empty is true for it.
PkLess(v) == IsModelInstance(cfg, v) /\ v.pk = PyNone
C9_EmptyOrPopulatedButPkLess ==
    /\ (call.op \in GvdOps /\ Returned(call.out))
         => /\ (call.out.val.value = PyNone) = (NoInstanceFor(call.arg) \/ PkLess(call.arg))
            /\ NoInstanceFor(call.arg)
                 => (call.out.val.title = PyStr(<<>>) /\ call.out.val.edit_item_url = PyNone)
            /\ PkLess(call.arg) => call.out.val.title = PyStr(call.arg.label)
    /\ (call.op = "render_html" /\ Returned(call.out))
         => call.out.val.is_empty = (NoInstanceFor(DescribedValue) \/ PkLess(DescribedValue))

C9_Witness ==
    /\ call.op = "render_html" /\ Returned(call.out)
    /\ PkLess(DescribedValue)
    /\ call.out.val.is_empty /\ call.out.val.title # PyStr(<<>>)

\* C10 (as claimed): describing the value of a returned payload again, with
\* the store unchanged, gives the same payload, for every input value.
C10_Idempotent ==
    call.op = "resubmit" => call.out = call.first.out

\* C10 (amended): it gives the same payload when the input is None or is not
\* an instance of the widget's model, and for a model instance when the
\* lookup of its primary key returns an instance equal to it; and no
\* get_value_data call changes an attribute of the widget.
MirrorsStore(v) == get_instance(cfg, store, fault, v.pk) = Return(v)
C10_StableOnStoredValues ==
    (/\ call.op = "resubmit"
     /\ IsModelInstance(cfg, call.first.arg) => MirrorsStore(call.first.arg))
    => call.out = call.first.out
C10_WidgetUntouched ==
    call'.op \in GvdOps => UNCHANGED <<cfg, classAttrs, widgets>>
C10_IdempotentOnStoredValues ==
    [](C10_StableOnStoredValues) /\ [][C10_WidgetUntouched]_vars

C10_Witness ==
    /\ call.op = "resubmit"
    /\ IsModelInstance(cfg, call.first.arg) /\ MirrorsStore(call.first.arg)
    /\ Returned(call.out) /\ call.out.val.edit_item_url # PyNone
    /\ call.out = call.first.out

C10_WitnessKey ==
    /\ call.op = "resubmit" /\ call.first.arg = PyStr(<<"1">>)
    /\ Returned(call.out) /\ call.out.val.value = PyStr(<<"1">>)

\* C6: constructing a widget with some of the five override keywords sets
\* exactly those attributes on that instance, leaves its other attributes at
\* the class defaults, leaves the class attributes and every other instance
\* unchanged, and forwards to the parent constructor the keywords that are
\* not among the five.
Overridable == {OverrideNames[i] : i \in 1..Len(OverrideNames)}
BuiltAsGiven(i) ==
    /\ DOMAIN widgets[i].dict = DOMAIN forwarded[i].given \cap Overridable
    /\ \A n \in Overridable :
         GetAttr(widgets[i], classAttrs, n)
           = (IF n \in DOMAIN forwarded[i].given THEN forwarded[i].given[n]
              ELSE ClassDefaults[n])
    /\ DOMAIN forwarded[i].passed = DOMAIN forwarded[i].given \ Overridable
    /\ \A n \in DOMAIN forwarded[i].passed : forwarded[i].passed[n] = forwarded[i].given[n]
C6_OverridesHold ==
    /\ classAttrs = ClassDefaults
    /\ \A i \in 1..MaxWidgets : widgets[i].built => BuiltAsGiven(i)
C6_OthersUntouched ==
    /\ classAttrs' = classAttrs
    /\ \A j \in 1..MaxWidgets :
         (widgets[j].built /\ widgets'[j].built) => widgets'[j] = widgets[j]
C6_OverridesAreLocal ==
    [](C6_OverridesHold) /\ [][C6_OthersUntouched]_vars

C6_Witness ==
    /\ widgets[1].built /\ widgets[2].built
    /\ DOMAIN widgets[1].dict = {"choose_one_text", "show_edit_link"}
    /\ widgets[1].dict["show_edit_link"] = "False"
    /\ DOMAIN widgets[2].dict = {"clear_choice_text"}
    /\ DOMAIN forwarded[2].passed = {"attrs"}
    /\ classAttrs["show_edit_link"] = "True"

====
